---- MODULE Spec2Model ----
(***************************************************************************)
(* A model of the data aggregation pipeline of agents/data_aggregator.py   *)
(* (class DataAggregator), of the reader side of agents/economic_analyst.py *)
(* and of the helper functions the pipeline is built from.                 *)
(*                                                                         *)
(* Texts are sequences of characters; a character is a one-letter string,  *)
(* or the name of its code point for the two non-ASCII characters below.   *)
(* Tables (pandas DataFrames) are sequences of rows.  A call's outcome is  *)
(* a record: [kind |-> "None"], [kind |-> "table", rows |-> ...] or        *)
(* [kind |-> "raise", exc |-> ...] when the exception leaves the callee.   *)
(***************************************************************************)
EXTENDS Integers, Sequences, FiniteSets, TLC

VARIABLES
    text,        \* sentiment scorer: the argument of _analyze_sentiment
    scores,      \* sentiment scorer: the scores computed for text and its case variants
    call,        \* a single fetcher call: the fetcher, its arguments and what the upstream does
    result       \* a single fetcher call: what the fetcher returned or raised

fetchVars == <<text, scores, call, result>>

(***************************************************************************)
(* Bounds of the model.                                                    *)
(***************************************************************************)
MaxFragments == 3
MaxEntries == 4
MaxBars == 3
MaxArticles == 3
MaxCountries == 2
MaxRuns == 2

(***************************************************************************)
(* Generic helpers.                                                        *)
(***************************************************************************)
RECURSIVE Flatten(_)
Flatten(ss) == IF ss = <<>> THEN <<>> ELSE Head(ss) \o Flatten(Tail(ss))

SeqsUpTo(S, n) == UNION {[1..k -> S] : k \in 0..n}

Max(a, b) == IF a >= b THEN a ELSE b

Unset == [kind |-> "unset"]
None == [kind |-> "None"]
Table(rows) == [kind |-> "table", rows |-> rows]
Raise(exc) == [kind |-> "raise", exc |-> exc]

(***************************************************************************)
(* Python's str.lower() and str.upper(), character by character.  Besides  *)
(* the ASCII letters the alphabet holds U+017F (LATIN SMALL LETTER LONG S: *)
(* lower() keeps it, upper() gives "S") and U+0131 (LATIN SMALL LETTER     *)
(* DOTLESS I: lower() keeps it, upper() gives "I").                        *)
(***************************************************************************)
LowerLetters == <<"a","b","c","d","e","f","g","h","i","j","k","l","m",
                  "n","o","p","q","r","s","t","u","v","w","x","y","z">>
UpperLetters == <<"A","B","C","D","E","F","G","H","I","J","K","L","M",
                  "N","O","P","Q","R","S","T","U","V","W","X","Y","Z">>
LongS == "U+017F"
DotlessI == "U+0131"

IsAscii(c) == c \notin {LongS, DotlessI}

lowerChar(c) ==
    IF \E i \in 1..Len(UpperLetters) : UpperLetters[i] = c
    THEN LowerLetters[CHOOSE i \in 1..Len(UpperLetters) : UpperLetters[i] = c]
    ELSE c

upperChar(c) ==
    IF \E i \in 1..Len(LowerLetters) : LowerLetters[i] = c
    THEN UpperLetters[CHOOSE i \in 1..Len(LowerLetters) : LowerLetters[i] = c]
    ELSE IF c = LongS THEN "S"
    ELSE IF c = DotlessI THEN "I"
    ELSE c

lower(t) == [i \in 1..Len(t) |-> lowerChar(t[i])]
upper(t) == [i \in 1..Len(t) |-> upperChar(t[i])]

\* Python's `w in s` for strings: w occurs in s as a contiguous substring.
Contains(s, w) ==
    \E i \in 1..(Len(s) - Len(w) + 1) : SubSeq(s, i, i + Len(w) - 1) = w

(***************************************************************************)
(* DataAggregator._analyze_sentiment.  The score is the fraction           *)
(* num / den, kept as a pair; the early return of 0 is 0 / 1.              *)
(***************************************************************************)
PositiveWords == << <<"r","i","s","e">>, <<"g","r","o","w","t","h">>,
                    <<"s","t","r","o","n","g">>, <<"b","u","l","l","i","s","h">> >>
NegativeWords == << <<"f","a","l","l">>, <<"d","e","c","l","i","n","e">>,
                    <<"w","e","a","k">>, <<"b","e","a","r","i","s","h">> >>

NoText == [kind |-> "None"]
Str(t) == [kind |-> "str", chars |-> t]

\* len([w for w in words if w in s])
CountIn(words, s) == Cardinality({i \in 1..Len(words) : Contains(s, words[i])})

Frac(n, d) == [num |-> n, den |-> d]

MutAnalyzeNoMax(txt) ==
    IF txt.kind = "None" \/ txt.chars = <<>>
    THEN Frac(0, 1)
    ELSE LET positive == CountIn(PositiveWords, lower(txt.chars))
             negative == CountIn(NegativeWords, lower(txt.chars))
         IN  Frac(positive - negative, Max(positive, 1))

MutAnalyzeNoLower(txt) ==
    IF txt.kind = "None" \/ txt.chars = <<>>
    THEN Frac(0, 1)
    ELSE LET positive == CountIn(PositiveWords, txt.chars)
             negative == CountIn(NegativeWords, txt.chars)
         IN  Frac(positive - negative, Max(positive + negative, 1))

MutAnalyzeEveryOccurrence(txt) ==
    IF txt.kind = "None" \/ txt.chars = <<>>
    THEN Frac(0, 1)
    ELSE LET s == lower(txt.chars)
             occ(words) == Cardinality({ik \in (1..Len(words)) \X (1..Len(s)) :
                              /\ ik[2] + Len(words[ik[1]]) - 1 <= Len(s)
                              /\ SubSeq(s, ik[2], ik[2] + Len(words[ik[1]]) - 1) = words[ik[1]]})
             positive == occ(PositiveWords)
             negative == occ(NegativeWords)
         IN  Frac(positive - negative, Max(positive + negative, 1))

_analyze_sentiment(txt) ==
    IF txt.kind = "None" \/ txt.chars = <<>>
    THEN Frac(0, 1)
    ELSE LET positive == CountIn(PositiveWords, lower(txt.chars))
             negative == CountIn(NegativeWords, lower(txt.chars))
         IN  Frac(positive - negative, Max(positive + negative, 1))

\* Equality of two scores as numbers.
SameScore(a, b) == a.num * b.den = b.num * a.den

(***************************************************************************)
(* The texts the scorer is run on are None and every concatenation of at   *)
(* most MaxFragments of these fragments.                                   *)
(***************************************************************************)
Fragments == {
    <<"r","i","s","e">>, <<"R","I","S","E">>, <<"G","r","o","w","t","h">>,
    <<"s","t","r","o","n","g">>, <<"b","u","l","l","i","s","h">>,
    <<"f","a","l","l">>, <<"F","A","L","L">>, <<"D","e","c","l","i","n","e">>,
    <<"w","e","a","k">>, <<"b","e","a","r","i","s","h">>,
    <<" ">>, <<"s">>, <<"t","r","o","n","g">>, <<"r">>,
    <<LongS>>, <<DotlessI, "s", "e">> }


(***************************************************************************)
(* DataAggregator.fetch_worldbank_data.  The upstream is what the HTTP     *)
(* call does: requests.get raises, raise_for_status raises, the body is    *)
(* not the expected JSON (json() raises, element [1] is missing or null,   *)
(* an entry lacks "date" or "value"), or the body is a list of entries.    *)
(* An entry is [date |-> year, value |-> JNull or JNum(n)]; the table      *)
(* returned has one row [date, value] per index entry, in index order.     *)
(***************************************************************************)
FirstYear == 2013
WBYears == FirstYear..(FirstYear + MaxEntries - 1)
JNull == [t |-> "null"]
JNum(n) == [t |-> "num", n |-> n]
WBValues == {JNull, JNum(7), JNum(9)}
WBEntries == [date : WBYears, value : WBValues]

WBOk(data) == [kind |-> "ok", data |-> data]
WBFailures == {[kind |-> "exception"], [kind |-> "http_error"], [kind |-> "bad_payload"]}

\* [... for entry in data if entry["value"] is not None]
NonNull(data) == SelectSeq(data, LAMBDA e : e.value # JNull)

Dates(rows) == {rows[i].date : i \in 1..Len(rows)}
MinDate(rows) == CHOOSE d \in Dates(rows) : \A e \in Dates(rows) : d <= e
MaxDate(rows) == CHOOSE d \in Dates(rows) : \A e \in Dates(rows) : d >= e
HasDuplicateDates(rows) == Cardinality(Dates(rows)) < Len(rows)

MutFilledValueBackfill(rows, y) ==
    LET next == CHOOSE d \in Dates(rows) :
                    d >= y /\ \A e \in Dates(rows) : e >= y => e >= d
        i == CHOOSE j \in 1..Len(rows) : rows[j].date = next
    IN  rows[i].value.n

\* The value the row of year y carries after asfreq('AS').ffill(): that of
\* the latest year <= y that has a row (the index has no duplicates here).
FilledValue(rows, y) ==
    LET last == CHOOSE d \in Dates(rows) :
                    d <= y /\ \A e \in Dates(rows) : e <= y => e <= d
        i == CHOOSE j \in 1..Len(rows) : rows[j].date = last
    IN  rows[i].value.n

\* Without asfreq: set_index('date').sort_index() alone.
MutSortOnly(rows) ==
    LET lo == MinDate(rows)
        ds == Dates(rows)
        Rank(d) == Cardinality({e \in ds : e <= d})
    IN  [k \in 1..Cardinality(ds) |->
            LET d == CHOOSE e \in ds : Rank(e) = k
            IN  [date |-> d, value |-> FilledValue(rows, d)]]

\* asfreq('AS').ffill() of the date-sorted frame: the index becomes every
\* year start from the first date to the last one.
AsfreqFfill(rows) ==
    LET lo == MinDate(rows)
        hi == MaxDate(rows)
    IN  [k \in 1..(hi - lo + 1) |->
            [date |-> lo + k - 1, value |-> FilledValue(rows, lo + k - 1)]]

\* The body of the try block, lines 50-57, for a decoded list of entries.
WBNormalize(data) ==
    LET rows == NonNull(data)
    IN  IF rows = <<>> THEN Raise("KeyError")            \* set_index('date') on a frame with no columns
        ELSE IF HasDuplicateDates(rows) THEN Raise("ValueError")  \* asfreq cannot reindex duplicate labels
        ELSE Table(AsfreqFfill(rows))

\* What a fetcher hands back: the value returned (or the exception that
\* leaves it), the messages it logged, and whether it called out.
Fetched(ret, log, calledOut) == [ret |-> ret, log |-> log, calledOut |-> calledOut]

fetch_worldbank_data(up) ==
    LET body == IF up.kind = "ok" THEN WBNormalize(up.data) ELSE Raise(up.kind)
    IN  IF body.kind = "raise"
        THEN Fetched(None, {"World Bank error"}, TRUE)
        ELSE Fetched(body, {}, TRUE)

(***************************************************************************)
(* Python values read from the YAML files and passed around.               *)
(***************************************************************************)
PyInt(n) == [kind |-> "int", n |-> n]
PyDict(items) == [kind |-> "dict", items |-> items]
EmptyDict == PyDict(<<>>)
HasKey(d, k) == k \in DOMAIN d.items

(***************************************************************************)
(* DataAggregator.fetch_yahoo_finance.  The upstream is what               *)
(* yf.Ticker(symbol).history(...) does: it raises, or it returns the price *)
(* history, a sequence of bars [month, close] in time order in which close *)
(* is JNum(n) or JNull (NaN).  The table returned has rows [date, close].  *)
(***************************************************************************)
Months == 1..MaxBars
Bars == [month : Months, close : {JNull, JNum(5)}]
InTimeOrder(h) == \A i \in 1..(Len(h) - 1) : h[i].month <= h[i + 1].month
Histories == {h \in SeqsUpTo(Bars, MaxBars) : InTimeOrder(h)}
YahooUpstreams == {[kind |-> "exception"]} \cup {[kind |-> "history", rows |-> h] : h \in Histories}

\* df.resample('M').last() then dropna(): one row per month that has a bar
\* with a close, carrying the last such close of the month, in month order.
MonthlyLastDropna(h) ==
    LET valued == {i \in 1..Len(h) : h[i].close # JNull}
        ms == {h[i].month : i \in valued}
        Rank(m) == Cardinality({e \in ms : e <= m})
    IN  [k \in 1..Cardinality(ms) |->
            LET m == CHOOSE e \in ms : Rank(e) = k
                i == CHOOSE j \in valued :
                        h[j].month = m /\ \A l \in valued : h[l].month = m => l <= j
            IN  [date |-> m, close |-> h[i].close.n]]

fetch_yahoo_finance(symbol, up) ==
    IF symbol.kind # "str" \/ Len(symbol.chars) < 2
    THEN Fetched(None, {"YFinance error"}, FALSE)          \* ValueError("Invalid symbol format")
    ELSE IF up.kind # "history"
    THEN Fetched(None, {"YFinance error"}, TRUE)
    ELSE IF up.rows = <<>>
    THEN Fetched(None, {"YFinance error"}, TRUE)          \* ValueError("No data returned ...")
    ELSE Fetched(Table(MonthlyLastDropna(up.rows)), {}, TRUE)

(***************************************************************************)
(* DataAggregator.fetch_news_sentiment.  The upstream is what the HTTP     *)
(* call does: requests.get raises, raise_for_status raises, json() raises, *)
(* or the body decodes to [status, articles].  An article is               *)
(* [publishedAt, title, content, source]: publishedAt is a date, null or   *)
(* text that is no date; content is a text or null; source is a mapping    *)
(* with a name or null.                                                    *)
(***************************************************************************)
PubDate(d) == [kind |-> "date", day |-> d]
PubBad == [kind |-> "unparsable"]
Source(n) == [kind |-> "dict", name |-> n]
ArticleContents == {NoText, Str(<<"r","i","s","e">>), Str(<<"F","a","l","l">>)}
Articles == [publishedAt : {PubDate(1), None, PubBad},
             title : {"t"},
             content : ArticleContents,
             source : {Source("bbc"), None}]
NewsOk(arts) == [kind |-> "json", status |-> "ok", articles |-> arts]
NewsFailures == {[kind |-> "exception"], [kind |-> "http_error"], [kind |-> "bad_payload"],
                 [kind |-> "json", status |-> "error", articles |-> <<>>]}

\* The dict built per article, lines 132-137; raises when
\* pd.to_datetime(...).normalize() or art.get("source", {}).get fails.
ArticleRow(art) ==
    IF art.publishedAt.kind = "None" THEN Raise("AttributeError")
    ELSE IF art.publishedAt.kind = "unparsable" THEN Raise("ParserError")
    ELSE IF art.source.kind = "None" THEN Raise("AttributeError")
    ELSE [kind |-> "row",
          date |-> art.publishedAt.day,
          title |-> art.title,
          sentiment |-> _analyze_sentiment(art.content),
          source |-> art.source.name]

MutNewsDataStopsAtMalformed(arts) ==
    LET bad == {i \in 1..Len(arts) : ArticleRow(arts[i]).kind = "raise"}
        n == IF bad = {} THEN Len(arts) ELSE (CHOOSE i \in bad : \A j \in bad : i <= j) - 1
    IN  [i \in 1..n |-> [date |-> ArticleRow(arts[i]).date, title |-> ArticleRow(arts[i]).title,
                          sentiment |-> ArticleRow(arts[i]).sentiment,
                          source |-> ArticleRow(arts[i]).source]]

\* news_data after the loop: the rows of the articles that did not raise.
RECURSIVE NewsData(_)
NewsData(arts) ==
    IF arts = <<>> THEN <<>>
    ELSE LET r == ArticleRow(Head(arts))
         IN  IF r.kind = "raise" THEN NewsData(Tail(arts))
             ELSE <<[date |-> r.date, title |-> r.title,
                     sentiment |-> r.sentiment, source |-> r.source]>> \o NewsData(Tail(arts))

SameRow(a, b) ==
    /\ a.date = b.date /\ a.title = b.title /\ a.source = b.source
    /\ SameScore(a.sentiment, b.sentiment)

\* DataFrame.drop_duplicates().reset_index(drop=True): the first of equal rows is kept.
DropDuplicates(rows) ==
    LET keep == {i \in 1..Len(rows) : \A j \in 1..(i - 1) : ~SameRow(rows[j], rows[i])}
        Rank(i) == Cardinality({j \in keep : j <= i})
    IN  [k \in 1..Cardinality(keep) |-> rows[CHOOSE i \in keep : Rank(i) = k]]

\* A scalar of a YAML mapping: a string, or None for a key left without a
\* value ("news_api:").  str() of it: str(None) is the text "None".
YamlStr(s) == [kind |-> "yamlstr", s |-> s]
PyStrOf(v) == IF v.kind = "None" THEN "None" ELSE v.s

\* str(self.api_keys.get("news_api", "")), line 107, outside the try block.
ApiKey(api_keys) ==
    IF HasKey(api_keys, "news_api") THEN PyStrOf(api_keys.items.news_api) ELSE ""

fetch_news_sentiment(api_keys, up) ==
    IF api_keys.kind # "dict"
    THEN Fetched(Raise("AttributeError"), {}, FALSE)      \* None has no attribute 'get'
    ELSE IF ApiKey(api_keys) = ""
    THEN Fetched(None, {"News API error"}, FALSE)         \* ValueError("News API key not found ...")
    ELSE IF up.kind # "json" \/ up.status # "ok"
    THEN Fetched(None, {"News API error"}, TRUE)
    ELSE Fetched(Table(DropDuplicates(NewsData(up.articles))),
                 IF Len(NewsData(up.articles)) < Len(up.articles)
                 THEN {"Error processing article"} ELSE {}, TRUE)

(***************************************************************************)
(* The pipeline: one run is one execution of the script's main block,      *)
(* os.makedirs("data/raw") and DataAggregator().aggregate_data().          *)
(***************************************************************************)
VARIABLES
    settingsFile,  \* config/settings.yaml on disk
    apiKeysFile,   \* config/api_keys.yaml on disk
    files,         \* the CSV files under data/: the path of each existing file -> its content
    pc,            \* per run: where the run is
    self,          \* per run: the DataAggregator object's settings and api_keys
    ci,            \* per run: index of the country the loop is at
    step,          \* per run: index in Metrics of the step the loop body is at
    pending,       \* per run: the value a fetcher returned, argument of the next _save_data
    fetched,       \* per run: <<country index, metric>> of each fetcher call made -> what it returned or raised
    log,           \* per run: the warnings and errors logged
    saveRet,       \* per run: what the last _save_data call returned
    exc,           \* per run: the exception that ended the run, if any
    filesAtStart,  \* per run: the files as they were when the run started
    calls,         \* per run: the fetcher and _save_data calls aggregate_data has made, in order
    analyst        \* the EconomicAnalyst object under construction: its state, the paths it opened

\* The earlier draft of the aggregator, a script of three fetch functions.
VARIABLES
    draftPc,       \* where the draft script is
    draftK,        \* index of the upstream call the running fetch function is at
    draftGot,      \* what the upstream calls of the running fetch function returned so far
    draftFiles,    \* the CSV files the draft wrote: path -> content
    draftCalls,    \* the upstream calls made, in order, each with its outcome
    draftInvoked   \* the fetch functions the main block invoked, in order

draftVars == <<draftPc, draftK, draftGot, draftFiles, draftCalls, draftInvoked>>

pipeVars == <<settingsFile, apiKeysFile, files, pc, self, ci, step, pending,
              fetched, log, saveRet, exc, filesAtStart, calls, analyst>>
vars == <<text, scores, call, result, settingsFile, apiKeysFile, files, pc, self, ci,
          step, pending, fetched, log, saveRet, exc, filesAtStart, calls, analyst,
          draftPc, draftK, draftGot, draftFiles, draftCalls, draftInvoked>>

Runs == 1..MaxRuns

MutMetricsStockBeforeCpi == <<"gdp", "stock", "cpi", "sentiment">>

\* The metric of each step of the loop body, in order, lines 178-198.
Metrics == <<"gdp", "cpi", "stock", "sentiment">>
MetricNames == {Metrics[i] : i \in 1..Len(Metrics)}

Ticker(chars) == Str(chars)
AllCountries == <<
    [name |-> "brazil", wb_code |-> "BRA", stock_index |-> Ticker(<<"^","B","V","S","P">>)],
    [name |-> "india", wb_code |-> "IND", stock_index |-> Ticker(<<"^","B","S","E","S","N">>)],
    [name |-> "southafrica", wb_code |-> "ZAF", stock_index |-> Ticker(<<"^","J","N","0","U">>)],
    [name |-> "china", wb_code |-> "CHN", stock_index |-> Ticker(<<"0","0","0","0","0","1">>)],
    [name |-> "russia", wb_code |-> "RUS", stock_index |-> Ticker(<<"I","M","O","E","X">>)] >>
CountryNames == {AllCountries[i].name : i \in 1..MaxCountries}

(***************************************************************************)
(* Configuration files and DataAggregator._load_yaml.                      *)
(***************************************************************************)
FileMissing == [state |-> "missing"]
FileMalformed == [state |-> "malformed"]      \* not YAML: yaml.safe_load raises
FileEmpty == [state |-> "empty"]              \* parses to nothing: yaml.safe_load returns None
FileValid(v) == [state |-> "valid", value |-> v]

SettingsOf(n) == PyDict([countries |-> SubSeq(AllCountries, 1, n)])
SettingsFiles == {FileMissing, FileMalformed, FileEmpty}
                     \cup {FileValid(SettingsOf(n)) : n \in 0..MaxCountries}
ApiKeysFiles == {FileMissing, FileMalformed, FileEmpty,
                 FileValid(PyDict([news_api |-> YamlStr("abc123")])),
                 FileValid(PyDict([fred |-> YamlStr("def456")]))}

LogEntry(msg, about) == [msg |-> msg, about |-> about]

_load_yaml(filename, file) ==
    IF file.state \in {"missing", "malformed"}
    THEN [ret |-> EmptyDict, log |-> {LogEntry("Config error", filename)}]
    ELSE IF file.state = "empty"
    THEN [ret |-> None, log |-> {}]
    ELSE [ret |-> file.value, log |-> {}]

(***************************************************************************)
(* Files and DataAggregator._save_data.  The path                          *)
(* <dir>/<country>_<suffix>.csv is [dir, country, suffix]; the content of  *)
(* a file is the rows written and, for the record, the run that wrote it.  *)
(***************************************************************************)
Path(dir, country, suffix) == [dir |-> dir, country |-> country, suffix |-> suffix]
Paths == [dir : {"data/raw", "data/processed"}, country : CountryNames,
          suffix : MetricNames \cup {"news"}]
NoFile == [kind |-> "nofile"]
Csv(rows, r) == [kind |-> "csv", rows |-> rows, by |-> r]
FileAt(fs, p) == IF p \in DOMAIN fs THEN fs[p] ELSE NoFile

MutWrittenKeepsExisting(fs, p, content) ==
    [q \in DOMAIN fs \cup {p} |-> IF q = p /\ p \notin DOMAIN fs THEN content ELSE fs[q]]

\* df.to_csv(path, index=True): the file is created, or replaced when it
\* exists.  The directory data/raw exists: the main block creates it.
Written(fs, p, content) == [q \in DOMAIN fs \cup {p} |-> IF q = p THEN content ELSE fs[q]]

\* os.path.join(self.data_dir, "raw", f"{country['name']}_<metric>.csv")
SinkPath(name, metric) == Path("data/raw", name, metric)

NonEmptyTable(df) == df.kind = "table" /\ df.rows # <<>>

MutSaveEmptyToo(df, path, fs, r) ==
    IF df.kind # "None"
    THEN [ret |-> TRUE, files |-> Written(fs, path, Csv(df.rows, r))]
    ELSE [ret |-> FALSE, files |-> fs]

MutSaveKeepsExistingFile(df, path, fs, r) ==
    IF NonEmptyTable(df) /\ path \notin DOMAIN fs
    THEN [ret |-> TRUE, files |-> Written(fs, path, Csv(df.rows, r))]
    ELSE [ret |-> NonEmptyTable(df), files |-> fs]

_save_data(df, path, fs, r) ==
    IF df.kind # "None" /\ df.rows # <<>>
    THEN [ret |-> TRUE, files |-> Written(fs, path, Csv(df.rows, r))]
    ELSE [ret |-> FALSE, files |-> fs]

(***************************************************************************)
(* What the upstreams do during a pipeline run: a few of the behaviours    *)
(* of each upstream, at least one per outcome of its fetcher.              *)
(***************************************************************************)
PipeWB == {[kind |-> "exception"], [kind |-> "http_error"],
           WBOk(<<[date |-> FirstYear, value |-> JNull]>>),
           WBOk(<<[date |-> FirstYear + 1, value |-> JNum(9)],
                  [date |-> FirstYear, value |-> JNum(7)]>>)}
PipeYahoo == {[kind |-> "exception"],
              [kind |-> "history", rows |-> <<>>],
              [kind |-> "history", rows |-> <<[month |-> 1, close |-> JNull]>>],
              [kind |-> "history", rows |-> <<[month |-> 1, close |-> JNum(5)]>>]}
GoodArticle == [publishedAt |-> PubDate(1), title |-> "t",
                content |-> Str(<<"r","i","s","e">>), source |-> Source("bbc")]
BadArticle == [publishedAt |-> None, title |-> "t", content |-> NoText, source |-> Source("bbc")]
PipeNews == {[kind |-> "exception"], NewsOk(<<>>), NewsOk(<<BadArticle>>),
             NewsOk(<<GoodArticle, BadArticle>>)}

NoExc == [type |-> "none", in |-> "none"]
Exc(type, in) == [type |-> type, in |-> in]
NothingFetched == <<>>
NoFiles == <<>>
FetchedAt(r, i, m) == IF <<i, m>> \in DOMAIN fetched[r] THEN fetched[r][<<i, m>>] ELSE Unset

Active(r) == pc[r] \in {"constructed", "fetch", "save"}
Ended(r) == pc[r] \in {"done", "crashed"}
Countries(r) == self[r].settings.items.countries
Country(r) == Countries(r)[ci[r]]

InitPipeline ==
    /\ settingsFile \in SettingsFiles
    /\ apiKeysFile \in ApiKeysFiles
    /\ files = NoFiles
    /\ pc = [r \in Runs |-> "idle"]
    /\ self = [r \in Runs |-> Unset]
    /\ ci = [r \in Runs |-> 0]
    /\ step = [r \in Runs |-> 0]
    /\ pending = [r \in Runs |-> Unset]
    /\ fetched = [r \in Runs |-> NothingFetched]
    /\ log = [r \in Runs |-> {}]
    /\ saveRet = [r \in Runs |-> Unset]
    /\ exc = [r \in Runs |-> NoExc]
    /\ filesAtStart = [r \in Runs |-> NoFiles]
    /\ calls = [r \in Runs |-> <<>>]
    /\ analyst = [pc |-> "idle", reads |-> {}]

\* DataAggregator.__init__: both configuration files are loaded.
Construct(r) ==
    /\ pc[r] = "idle"
    /\ LET s == _load_yaml("settings.yaml", settingsFile)
           a == _load_yaml("api_keys.yaml", apiKeysFile)
       IN  /\ self' = [self EXCEPT ![r] = [settings |-> s.ret, api_keys |-> a.ret]]
           /\ log' = [log EXCEPT ![r] = s.log \cup a.log]
    /\ filesAtStart' = [filesAtStart EXCEPT ![r] = files]
    /\ pc' = [pc EXCEPT ![r] = "constructed"]
    /\ UNCHANGED <<fetchVars, draftVars, settingsFile, apiKeysFile, files, ci, step, pending,
                   fetched, saveRet, exc, calls, analyst>>

\* aggregate_data up to the loop header, line 174: self.settings["countries"].
BeginAggregate(r) ==
    /\ pc[r] = "constructed"
    /\ LET settings == self[r].settings
       IN  IF settings.kind # "dict"
           THEN /\ pc' = [pc EXCEPT ![r] = "crashed"]
                /\ exc' = [exc EXCEPT ![r] = Exc("TypeError", "aggregate_data")]
                /\ UNCHANGED <<ci, step>>
           ELSE IF ~HasKey(settings, "countries")
           THEN /\ pc' = [pc EXCEPT ![r] = "crashed"]
                /\ exc' = [exc EXCEPT ![r] = Exc("KeyError", "aggregate_data")]
                /\ UNCHANGED <<ci, step>>
           ELSE IF settings.items.countries = <<>>
           THEN /\ pc' = [pc EXCEPT ![r] = "done"]
                /\ UNCHANGED <<exc, ci, step>>
           ELSE /\ pc' = [pc EXCEPT ![r] = "fetch"]
                /\ ci' = [ci EXCEPT ![r] = 1]
                /\ step' = [step EXCEPT ![r] = 1]
                /\ UNCHANGED exc
    /\ UNCHANGED <<fetchVars, draftVars, settingsFile, apiKeysFile, files, self, pending,
                   fetched, log, saveRet, filesAtStart, calls, analyst>>

\* The entries of calls: a fetcher call with its arguments, a _save_data
\* call with the path it is given.
FetchCall(fn, arg) == [op |-> "fetch", fn |-> fn, arg |-> arg]
SaveCall(path) == [op |-> "save", path |-> path]

\* The fetcher call of a step has handed back f: its value becomes the
\* argument of _save_data, or its exception ends the run.
AfterFetch(r, f, fn, arg) ==
    /\ calls' = [calls EXCEPT ![r] = Append(@, FetchCall(fn, arg))]
    /\ fetched' = [fetched EXCEPT ![r] =
                      [k \in DOMAIN @ \cup {<<ci[r], Metrics[step[r]]>>} |->
                          IF k = <<ci[r], Metrics[step[r]]>> THEN f.ret ELSE @[k]]]
    /\ log' = [log EXCEPT ![r] = @ \cup {LogEntry(m, "") : m \in f.log}]
    /\ IF f.ret.kind = "raise"
       THEN /\ pc' = [pc EXCEPT ![r] = "crashed"]
            /\ exc' = [exc EXCEPT ![r] = Exc(f.ret.exc, fn)]
            /\ UNCHANGED pending
       ELSE /\ pc' = [pc EXCEPT ![r] = "save"]
            /\ pending' = [pending EXCEPT ![r] = f.ret]
            /\ UNCHANGED exc
    /\ UNCHANGED <<fetchVars, draftVars, settingsFile, apiKeysFile, files, self, ci, step,
                   saveRet, filesAtStart, analyst>>

\* self.fetch_worldbank_data("NY.GDP.MKTP.CD", country["wb_code"]), line 179.
FetchGDP(r) ==
    /\ pc[r] = "fetch" /\ Metrics[step[r]] = "gdp"
    /\ \E up \in PipeWB : AfterFetch(r, fetch_worldbank_data(up), "fetch_worldbank_data",
                                 <<"NY.GDP.MKTP.CD", Country(r).wb_code>>)

\* self.fetch_worldbank_data("FP.CPI.TOTL.ZG", country["wb_code"]), line 184.
FetchCPI(r) ==
    /\ pc[r] = "fetch" /\ Metrics[step[r]] = "cpi"
    /\ \E up \in PipeWB : AfterFetch(r, fetch_worldbank_data(up), "fetch_worldbank_data",
                                 <<"FP.CPI.TOTL.ZG", Country(r).wb_code>>)

\* self.fetch_yahoo_finance(country["stock_index"]), line 190.
FetchStock(r) ==
    /\ pc[r] = "fetch" /\ Metrics[step[r]] = "stock"
    /\ \E up \in PipeYahoo :
          AfterFetch(r, fetch_yahoo_finance(Country(r).stock_index, up), "fetch_yahoo_finance",
                     <<Country(r).stock_index>>)

\* self.fetch_news_sentiment(country["name"]), line 196.
FetchNews(r) ==
    /\ pc[r] = "fetch" /\ Metrics[step[r]] = "sentiment"
    /\ \E up \in PipeNews :
          AfterFetch(r, fetch_news_sentiment(self[r].api_keys, up), "fetch_news_sentiment",
                     <<Country(r).name>>)

\* self._save_data(<fetched>, f"{country['name']}_<metric>.csv"), then on to
\* the next step, the next country or the end of aggregate_data.
SaveStep(r) ==
    /\ pc[r] = "save"
    /\ LET s == _save_data(pending[r], SinkPath(Country(r).name, Metrics[step[r]]), files, r)
       IN  /\ files' = s.files
           /\ saveRet' = [saveRet EXCEPT ![r] = s.ret]
    /\ calls' = [calls EXCEPT ![r] =
                    Append(@, SaveCall(SinkPath(Country(r).name, Metrics[step[r]])))]
    /\ pending' = [pending EXCEPT ![r] = Unset]
    /\ IF step[r] < Len(Metrics)
       THEN /\ step' = [step EXCEPT ![r] = @ + 1]
            /\ pc' = [pc EXCEPT ![r] = "fetch"]
            /\ UNCHANGED ci
       ELSE IF ci[r] < Len(Countries(r))
       THEN /\ ci' = [ci EXCEPT ![r] = @ + 1]
            /\ step' = [step EXCEPT ![r] = 1]
            /\ pc' = [pc EXCEPT ![r] = "fetch"]
       ELSE /\ pc' = [pc EXCEPT ![r] = "done"]
            /\ UNCHANGED <<ci, step>>
    /\ UNCHANGED <<fetchVars, draftVars, settingsFile, apiKeysFile, self, fetched, log, exc,
                   filesAtStart, analyst>>

RunStep(r) ==
    \/ Construct(r)
    \/ BeginAggregate(r)
    \/ FetchGDP(r)
    \/ FetchCPI(r)
    \/ FetchStock(r)
    \/ FetchNews(r)
    \/ SaveStep(r)

(***************************************************************************)
(* EconomicAnalyst.__init__: _load_config, then _load_datasets, which      *)
(* reads four files per configured country.  Nothing is caught: the first  *)
(* failure leaves the constructor.                                         *)
(***************************************************************************)
\* The paths _load_datasets opens, in order, lines 31-38.
AnalystSuffixes == <<"gdp", "cpi", "stock", "news">>
RECURSIVE LoadOrder(_)
LoadOrder(countries) ==
    IF countries = <<>> THEN <<>>
    ELSE [k \in 1..Len(AnalystSuffixes) |->
             Path("data/processed", Head(countries).name, AnalystSuffixes[k])]
         \o LoadOrder(Tail(countries))

\* The paths opened until the first one that does not exist, that one included.
Opened(order, fs) ==
    {order[k] : k \in {k \in 1..Len(order) : \A j \in 1..(k - 1) : order[j] \in DOMAIN fs}}

LoadDatasets ==
    /\ analyst.pc = "idle"
    /\ \E r \in Runs : Ended(r)
    /\ \A r \in Runs : ~Active(r)
    /\ IF settingsFile.state # "valid" \/ ~HasKey(settingsFile.value, "countries")
       THEN analyst' = [pc |-> "crashed", reads |-> {}]
       ELSE LET order == LoadOrder(settingsFile.value.items.countries)
            IN  analyst' = [pc |-> IF \A k \in 1..Len(order) : order[k] \in DOMAIN files
                                   THEN "loaded" ELSE "crashed",
                            reads |-> Opened(order, files)]
    /\ UNCHANGED <<fetchVars, draftVars, settingsFile, apiKeysFile, files, pc, self, ci, step,
                   pending, fetched, log, saveRet, exc, filesAtStart, calls>>


(***************************************************************************)
(* The earlier draft, src/src/agents/data-aggregator/data_aggregator.py:   *)
(* the main block calls fetch_forex_data, fetch_inflation_data and         *)
(* fetch_gdp_data in that order.  None of them has a try block.  The first *)
(* two make their three upstream calls, then write their three files; the  *)
(* third requests and writes country by country, and only looks at the     *)
(* response when its status is 200.  The output directories exist.         *)
(***************************************************************************)
\* What an upstream call of the draft can do: a client-library call raises
\* or returns data; an HTTP GET raises, answers with another status than
\* 200, answers 200 with a body that is not the expected JSON, or answers
\* 200 with the data.
DraftData == {"d1", "d2"}
LibraryOutcomes == {[kind |-> "raise"]} \cup {[kind |-> "ok", data |-> d] : d \in DraftData}
HttpOutcomes == {[kind |-> "raise"], [kind |-> "status_not_200"], [kind |-> "bad_payload"],
                 [kind |-> "ok", data |-> "d1"]}

MutDraftBadPayloadSkipped(out) == out.kind = "raise"

\* The outcomes after which an exception leaves the fetch function: the
\* call itself raises, or response.json()[1] / [['date', 'value']] does.
DraftRaises(out) == out.kind \in {"raise", "bad_payload"}

\* The targets of the three functions, in call order, with the file of each.
ForexPairs == << [arg |-> "BRL", file |-> "data/raw/brl_usd.csv"],
                 [arg |-> "INR", file |-> "data/raw/inr_usd.csv"],
                 [arg |-> "ZAR", file |-> "data/raw/zar_usd.csv"] >>
InflationSeries == << [arg |-> "CPALTT01BRQ657N", file |-> "data/raw/brazil_cpi.csv"],
                      [arg |-> "CPALTT01INQ657N", file |-> "data/raw/india_cpi.csv"],
                      [arg |-> "CPALTT01ZAQ657N", file |-> "data/raw/sa_cpi.csv"] >>
GdpCountries ==
    << [arg |-> "BRA", file |-> "src/agents/data-aggregator/data/raw/brazil_gdp.csv"],
       [arg |-> "IND", file |-> "src/agents/data-aggregator/data/raw/india_gdp.csv"],
       [arg |-> "ZAF", file |-> "src/agents/data-aggregator/data/raw/south africa_gdp.csv"] >>

DraftCall(fn, arg, out) == [fn |-> fn, arg |-> arg, out |-> out]
DraftWritten(fs, p, content) ==
    [q \in DOMAIN fs \cup {p} |-> IF q = p THEN content ELSE fs[q]]
\* The three to_csv calls that end fetch_forex_data and fetch_inflation_data.
DraftWrittenAll(fs, targets, got) ==
    DraftWritten(DraftWritten(DraftWritten(fs, targets[1].file, got[1]),
                              targets[2].file, got[2]),
                 targets[3].file, got[3])

InitIdleDraft ==
    /\ draftPc = "idle" /\ draftK = 0 /\ draftGot = <<>>
    /\ draftFiles = <<>> /\ draftCalls = <<>> /\ draftInvoked = <<>>

\* The script is started: the main block calls fetch_forex_data, line 68.
DraftStart ==
    /\ draftPc = "idle"
    /\ draftPc' = "forex" /\ draftK' = 1 /\ draftGot' = <<>>
    /\ draftInvoked' = <<"fetch_forex_data">>
    /\ UNCHANGED <<draftFiles, draftCalls, fetchVars, pipeVars>>

\* One upstream call of a function that calls first and writes afterwards:
\* an exception leaves the function and the main block, and ends the process.
DraftLibraryCall(fn, targets) ==
    /\ draftK <= Len(targets)
    /\ \E out \in LibraryOutcomes :
          /\ draftCalls' = Append(draftCalls, DraftCall(fn, targets[draftK].arg, out))
          /\ IF DraftRaises(out)
             THEN /\ draftPc' = "aborted"
                  /\ UNCHANGED <<draftK, draftGot>>
             ELSE /\ draftGot' = Append(draftGot, out.data)
                  /\ draftK' = draftK + 1
                  /\ UNCHANGED draftPc
    /\ UNCHANGED <<draftFiles, draftInvoked, fetchVars, pipeVars>>

\* fx.get_currency_exchange_daily(...), lines 9-11.
ForexCall == draftPc = "forex" /\ DraftLibraryCall("fetch_forex_data", ForexPairs)

\* Lines 14-23, then the main block calls fetch_inflation_data, line 69.
ForexSave ==
    /\ draftPc = "forex" /\ draftK = Len(ForexPairs) + 1
    /\ draftFiles' = DraftWrittenAll(draftFiles, ForexPairs, draftGot)
    /\ draftPc' = "inflation" /\ draftK' = 1 /\ draftGot' = <<>>
    /\ draftInvoked' = Append(draftInvoked, "fetch_inflation_data")
    /\ UNCHANGED <<draftCalls, fetchVars, pipeVars>>

\* fred.get_series(...), lines 29-31.
InflationCall ==
    draftPc = "inflation" /\ DraftLibraryCall("fetch_inflation_data", InflationSeries)

\* Lines 34-43, then the main block calls fetch_gdp_data, line 70.
InflationSave ==
    /\ draftPc = "inflation" /\ draftK = Len(InflationSeries) + 1
    /\ draftFiles' = DraftWrittenAll(draftFiles, InflationSeries, draftGot)
    /\ draftPc' = "gdp" /\ draftK' = 1 /\ draftGot' = <<>>
    /\ draftInvoked' = Append(draftInvoked, "fetch_gdp_data")
    /\ UNCHANGED <<draftCalls, fetchVars, pipeVars>>

\* One iteration of the loop of fetch_gdp_data, lines 54-63: the request,
\* and for status 200 the decoding and the write of the country's file.
GdpRequest ==
    /\ draftPc = "gdp" /\ draftK <= Len(GdpCountries)
    /\ \E out \in HttpOutcomes :
          /\ draftCalls' = Append(draftCalls,
                                  DraftCall("fetch_gdp_data", GdpCountries[draftK].arg, out))
          /\ IF DraftRaises(out)
             THEN /\ draftPc' = "aborted"
                  /\ UNCHANGED <<draftK, draftFiles>>
             ELSE /\ draftFiles' = IF out.kind = "ok"
                                   THEN DraftWritten(draftFiles, GdpCountries[draftK].file, out.data)
                                   ELSE draftFiles
                  /\ draftK' = draftK + 1
                  /\ UNCHANGED draftPc
    /\ UNCHANGED <<draftGot, draftInvoked, fetchVars, pipeVars>>

\* fetch_gdp_data returns and the main block ends, line 72.
GdpReturn ==
    /\ draftPc = "gdp" /\ draftK = Len(GdpCountries) + 1
    /\ draftPc' = "done"
    /\ UNCHANGED <<draftK, draftGot, draftFiles, draftCalls, draftInvoked, fetchVars, pipeVars>>
(***************************************************************************)
(* Specifications.                                                         *)
(***************************************************************************)
InitIdleFetch ==
    /\ text = NoText /\ scores = Unset
    /\ call = Unset /\ result = Unset
InitIdlePipeline ==
    /\ settingsFile = FileMissing /\ apiKeysFile = FileMissing
    /\ files = NoFiles
    /\ pc = [r \in Runs |-> "idle"]
    /\ self = [r \in Runs |-> Unset]
    /\ ci = [r \in Runs |-> 0]
    /\ step = [r \in Runs |-> 0]
    /\ pending = [r \in Runs |-> Unset]
    /\ fetched = [r \in Runs |-> NothingFetched]
    /\ log = [r \in Runs |-> {}]
    /\ saveRet = [r \in Runs |-> Unset]
    /\ exc = [r \in Runs |-> NoExc]
    /\ filesAtStart = [r \in Runs |-> NoFiles]
    /\ calls = [r \in Runs |-> <<>>]
    /\ analyst = [pc |-> "idle", reads |-> {}]

\* The sentiment scorer alone, on every concatenation of at most MaxFragments fragments.
InitSentiment ==
    /\ \/ text = NoText
       \/ \E k \in 0..MaxFragments : \E fs \in [1..k -> Fragments] : text = Str(Flatten(fs))
    /\ scores = Unset
    /\ call = Unset /\ result = Unset
    /\ InitIdlePipeline /\ InitIdleDraft

\* One call of the scorer on the text, on its upper-cased and on its lower-cased form.
AnalyzeSentiment ==
    /\ scores = Unset
    /\ scores' = [kind |-> "scores",
                  plain |-> _analyze_sentiment(text),
                  up |-> IF text.kind = "None" THEN _analyze_sentiment(text)
                         ELSE _analyze_sentiment(Str(upper(text.chars))),
                  low |-> IF text.kind = "None" THEN _analyze_sentiment(text)
                          ELSE _analyze_sentiment(Str(lower(text.chars)))]
    /\ UNCHANGED <<text, call, result, pipeVars, draftVars>>

NextSentiment == AnalyzeSentiment

SpecSentiment == InitSentiment /\ [][NextSentiment]_vars

\* One fetcher alone, on every upstream behaviour of its upstream.
Symbols == {Ticker(<<"^","B","V","S","P">>), Ticker(<<"X">>), PyInt(5)}
ApiKeysValues == {None, EmptyDict, PyDict([news_api |-> YamlStr("abc123")]),
                  PyDict([news_api |-> YamlStr("")]), PyDict([news_api |-> None])}
InitFetch ==
    /\ text = NoText /\ scores = Unset
    /\ \/ \E up \in WBFailures : call = [fn |-> "fetch_worldbank_data", up |-> up]
       \/ \E k \in 0..MaxEntries : \E d \in [1..k -> WBEntries] :
             call = [fn |-> "fetch_worldbank_data", up |-> WBOk(d)]
       \/ \E s \in Symbols : \E up \in YahooUpstreams :
             call = [fn |-> "fetch_yahoo_finance", symbol |-> s, up |-> up]
       \/ \E keys \in ApiKeysValues : \E up \in NewsFailures :
             call = [fn |-> "fetch_news_sentiment", api_keys |-> keys, up |-> up]
       \/ \E keys \in ApiKeysValues : \E k \in 0..MaxArticles : \E a \in [1..k -> Articles] :
             call = [fn |-> "fetch_news_sentiment", api_keys |-> keys, up |-> NewsOk(a)]
    /\ result = Unset
    /\ InitIdlePipeline /\ InitIdleDraft

CallWorldBank ==
    /\ result = Unset /\ call.fn = "fetch_worldbank_data"
    /\ result' = fetch_worldbank_data(call.up)
    /\ UNCHANGED <<text, scores, call, pipeVars, draftVars>>

CallYahoo ==
    /\ result = Unset /\ call.fn = "fetch_yahoo_finance"
    /\ result' = fetch_yahoo_finance(call.symbol, call.up)
    /\ UNCHANGED <<text, scores, call, pipeVars, draftVars>>

CallNews ==
    /\ result = Unset /\ call.fn = "fetch_news_sentiment"
    /\ result' = fetch_news_sentiment(call.api_keys, call.up)
    /\ UNCHANGED <<text, scores, call, pipeVars, draftVars>>

NextFetch == CallWorldBank \/ CallYahoo \/ CallNews

SpecFetch == InitFetch /\ [][NextFetch]_vars

\* One run of the pipeline, then the analyst.
Init == InitIdleFetch /\ InitPipeline /\ InitIdleDraft

Next == RunStep(1) \/ LoadDatasets

Spec == Init /\ [][Next]_vars

\* Runs of the pipeline one after the other, over one configured country,
\* then the analyst.
InitRerun ==
    /\ InitIdleFetch /\ InitPipeline /\ InitIdleDraft
    /\ settingsFile = FileValid(SettingsOf(1))

InOrder(r) == \A q \in Runs \ {r} : ~Active(q) /\ (q < r => pc[q] # "idle")

\* A run is started when no other run is under way, the runs in order.
StartInOrder(r) == InOrder(r) /\ Construct(r)

NextRerun ==
    \/ \E r \in Runs :
          \/ StartInOrder(r)
          \/ BeginAggregate(r)
          \/ FetchGDP(r)
          \/ FetchCPI(r)
          \/ FetchStock(r)
          \/ FetchNews(r)
          \/ SaveStep(r)
    \/ LoadDatasets

SpecRerun == InitRerun /\ [][NextRerun]_vars


\* Two invocations of the script at the same time against the same data
\* directory, over one configured country: each is its own process with
\* its own DataAggregator, and their steps interleave in any order.
ConcurrentRuns == {1, 2}
InitConcurrent ==
    /\ InitIdleFetch /\ InitPipeline /\ InitIdleDraft
    /\ settingsFile = FileValid(SettingsOf(1))
    /\ apiKeysFile = FileValid(PyDict([news_api |-> YamlStr("abc123")]))

NextConcurrent ==
    \E r \in ConcurrentRuns :
        \/ Construct(r)
        \/ BeginAggregate(r)
        \/ FetchGDP(r)
        \/ FetchCPI(r)
        \/ FetchStock(r)
        \/ FetchNews(r)
        \/ SaveStep(r)

SpecConcurrent == InitConcurrent /\ [][NextConcurrent]_vars

\* The draft script alone, run once.
InitDraft == InitIdleFetch /\ InitIdlePipeline /\ InitIdleDraft

NextDraft ==
    \/ DraftStart
    \/ ForexCall
    \/ ForexSave
    \/ InflationCall
    \/ InflationSave
    \/ GdpRequest
    \/ GdpReturn

SpecDraft == InitDraft /\ [][NextDraft]_vars
(***************************************************************************)
(* Claims about the pipeline (specifications Spec and SpecRerun).          *)
(***************************************************************************)
Fetchers == {"fetch_worldbank_data", "fetch_yahoo_finance", "fetch_news_sentiment"}
Configured(r) == self[r] # Unset /\ self[r].settings.kind = "dict"
                     /\ HasKey(self[r].settings, "countries")
NCountries(r) == Len(Countries(r))
SinkPathOf(r, i, m) == SinkPath(Countries(r)[i].name, m)
\* The run has ended, normally or not, and no later run has started.
LatestEnded(r) == Ended(r) /\ \A q \in Runs : q > r => pc[q] = "idle"
LatestDone(r) == pc[r] = "done" /\ \A q \in Runs : q > r => pc[q] = "idle"

\* C1: whatever the upstream does and whatever configuration _load_yaml
\* produced, no fetcher raises to its caller: every fetcher call of a run
\* hands back a table or None, and no run is ended by an exception that
\* left a fetcher.
C1_FetchersNeverRaise ==
    \A r \in Runs :
        /\ exc[r].in \notin Fetchers
        /\ \A i \in 1..MaxCountries : \A m \in MetricNames :
              FetchedAt(r, i, m).kind \in {"unset", "None", "table"}

\* C2: in a run over the configured countries that has ended, if some
\* fetcher returned None for some country, every other fetcher call of that
\* country and all four of every other country were made, and the file of
\* every step whose fetch returned a non-empty table is written.
C2_FailureIsolation ==
    \A r \in Runs :
        (/\ LatestEnded(r) /\ Configured(r)
         /\ \E i \in 1..NCountries(r) : \E m \in MetricNames : FetchedAt(r, i, m) = None)
        => \A j \in 1..NCountries(r) : \A m \in MetricNames :
              /\ FetchedAt(r, j, m) # Unset
              /\ NonEmptyTable(FetchedAt(r, j, m))
                    => FileAt(files, SinkPathOf(r, j, m)) = Csv(FetchedAt(r, j, m).rows, r)

\* C3: every _save_data call returns True exactly when its table is neither
\* None nor empty; then the target file holds the table afterwards (created
\* or overwritten) and no other file changes; otherwise it returns False
\* and no file changes.
C3_SaveDataWritesIffNonEmpty ==
    [][\A r \in Runs :
          (pc[r] = "save" /\ pc'[r] # "save") =>
              LET df == pending[r]
                  path == SinkPath(Country(r).name, Metrics[step[r]])
              IN  /\ saveRet'[r] \in BOOLEAN
                  /\ saveRet'[r] <=> (df # None /\ df.rows # <<>>)
                  /\ saveRet'[r] => /\ FileAt(files', path) = Csv(df.rows, r)
                                     /\ \A p \in Paths \ {path} : FileAt(files', p) = FileAt(files, p)
                  /\ ~saveRet'[r] => files' = files]_vars

\* C3 witness: a second run has overwritten a file the first run created,
\* and its last _save_data call, on an absent or empty table, returned
\* False.
C3_Witness ==
    /\ pc[2] = "done" /\ saveRet[2] = FALSE
    /\ \E p \in DOMAIN filesAtStart[2] : files[p].by = 2

\* C4: when a configuration file is missing or malformed, loading it
\* yields an empty mapping and logs an error, and the run does not crash.
Broken(file) == file.state \in {"missing", "malformed"}
C4_BrokenConfigDoesNotCrash ==
    \A r \in Runs :
        (/\ pc[r] # "idle"
         /\ settingsFile.state # "empty" /\ apiKeysFile.state # "empty"
         /\ Broken(settingsFile) \/ Broken(apiKeysFile))
        => /\ Broken(settingsFile) =>
                  /\ self[r].settings = EmptyDict
                  /\ LogEntry("Config error", "settings.yaml") \in log[r]
           /\ Broken(apiKeysFile) =>
                  /\ self[r].api_keys = EmptyDict
                  /\ LogEntry("Config error", "api_keys.yaml") \in log[r]
           /\ pc[r] # "crashed"

\* C8 as stated: after any completed run, every file that exists under
\* raw/ for a configured country holds the table fetched in that run.
C8_EveryFileFromThisRun ==
    \A r \in Runs :
        (LatestDone(r) /\ Configured(r)) =>
            \A i \in 1..NCountries(r) : \A m \in MetricNames :
                SinkPathOf(r, i, m) \in DOMAIN files =>
                    /\ FetchedAt(r, i, m).kind = "table"
                    /\ files[SinkPathOf(r, i, m)] = Csv(FetchedAt(r, i, m).rows, r)

\* C8 amended: after any completed run, a file <country>_<metric>.csv of a
\* configured country holds the table fetched in that run when that fetch
\* returned a non-empty table; when it returned None or an empty table the
\* file is as it was before the run (absent, or with what an earlier run
\* wrote).
C8_FileFromThisRunIffFetched ==
    \A r \in Runs :
        (LatestDone(r) /\ Configured(r)) =>
            \A i \in 1..NCountries(r) : \A m \in MetricNames :
                IF NonEmptyTable(FetchedAt(r, i, m))
                THEN FileAt(files, SinkPathOf(r, i, m)) = Csv(FetchedAt(r, i, m).rows, r)
                ELSE FileAt(files, SinkPathOf(r, i, m)) = FileAt(filesAtStart[r], SinkPathOf(r, i, m))

\* C8 witness: a second run is complete; it overwrote one file of the first
\* run, and another file of the first run is still there.
C8_Witness ==
    /\ pc[2] = "done"
    /\ \E p \in DOMAIN filesAtStart[2] : files[p].by = 2
    /\ \E p \in DOMAIN files : files[p].by = 1

\* C9: once the analyst has loaded its datasets after a complete run in
\* which every fetch returned a non-empty table, every path it opened is a
\* path the sink wrote in that run.
AllFetched(r) ==
    /\ NCountries(r) >= 1
    /\ \A i \in 1..NCountries(r) : \A m \in MetricNames : NonEmptyTable(FetchedAt(r, i, m))
WrittenBy(r) == {p \in DOMAIN files : files[p].by = r}
C9_AnalystReadsWhatSinkWrote ==
    \A r \in Runs :
        (analyst.pc # "idle" /\ LatestDone(r) /\ Configured(r) /\ AllFetched(r))
        => analyst.reads \subseteq WrittenBy(r)

(***************************************************************************)
(* Claims about the fetchers (specification SpecFetch).                    *)
(***************************************************************************)
\* The upstream call succeeded and yielded no usable rows.
NoUsableRows ==
    \/ /\ call.fn = "fetch_worldbank_data"
       /\ call.up.kind = "ok" /\ NonNull(call.up.data) = <<>>
    \/ /\ call.fn = "fetch_yahoo_finance"
       /\ call.symbol.kind = "str" /\ Len(call.symbol.chars) >= 2
       /\ call.up.kind = "history" /\ call.up.rows = <<>>
    \/ /\ call.fn = "fetch_news_sentiment"
       /\ call.api_keys.kind = "dict" /\ ApiKey(call.api_keys) # ""
       /\ call.up.kind = "json" /\ call.up.status = "ok"
       /\ NewsData(call.up.articles) = <<>>

\* C10: every fetcher returns None, never an empty table, when the
\* upstream call succeeds but yields no usable rows.
C10_NoUsableRowsIsNone ==
    (result # Unset /\ NoUsableRows) => result.ret = None

(***************************************************************************)
(* Claims about the sentiment scorer (specification SpecSentiment).        *)
(***************************************************************************)
Scored == scores # Unset
EmptyOrNull(txt) == txt.kind = "None" \/ txt.chars = <<>>
AsciiText(txt) == txt.kind = "None" \/ \A i \in 1..Len(txt.chars) : IsAscii(txt.chars[i])
InUnitRange(f) == f.den >= 1 /\ -f.den <= f.num /\ f.num <= f.den

\* C5: for any text given to _analyze_sentiment the score lies in [-1, 1],
\* and for empty or null text the score is exactly 0.
C5_ScoreInRange ==
    Scored =>
        /\ InUnitRange(scores.plain) /\ InUnitRange(scores.up) /\ InUnitRange(scores.low)
        /\ EmptyOrNull(text) => scores.plain.num = 0

\* C5 witness: a scored text with both kinds of keyword and a score strictly
\* between 0 and 1 (1/3), and the scorer has run.
C5_Witness ==
    /\ Scored /\ ~EmptyOrNull(text)
    /\ scores.plain.num = 1 /\ scores.plain.den = 3

\* C6 as stated: for any text t the scores of t, upper(t) and lower(t) are equal.
C6_CaseInvariantAnyText ==
    Scored => SameScore(scores.plain, scores.up) /\ SameScore(scores.plain, scores.low)

\* C6 amended: for any text t made of ASCII characters only, the scores of
\* t, upper(t) and lower(t) are equal.
C6_CaseInvariantAscii ==
    (Scored /\ AsciiText(text)) =>
        SameScore(scores.plain, scores.up) /\ SameScore(scores.plain, scores.low)

\* C6 witness: a scored ASCII text holding an upper-case letter and a
\* lower-case letter, whose score is not 0.
C6_Witness ==
    /\ Scored /\ text.kind = "str" /\ AsciiText(text)
    /\ upper(text.chars) # text.chars /\ lower(text.chars) # text.chars
    /\ scores.plain.num # 0

(***************************************************************************)
(* Claims about the World Bank fetcher (specification SpecFetch).      *)
(***************************************************************************)
NullCount(data) == Len(data) - Len(NonNull(data))
AllDates(data) == {data[i].date : i \in 1..Len(data)}
\* The entries are for distinct, consecutive years (in any order), as the
\* World Bank returns them for a date range.
ConsecutiveYears(data) ==
    /\ data # <<>>
    /\ Cardinality(AllDates(data)) = Len(data)
    /\ \A y \in WBYears :
          (\E a \in AllDates(data) : a <= y) /\ (\E b \in AllDates(data) : y <= b)
              => y \in AllDates(data)
\* Null entries between two non-null ones, and those before the first or after the last.
InteriorNulls(data) ==
    {i \in 1..Len(data) : /\ data[i].value = JNull
                          /\ \E j \in 1..Len(data) : data[j].value # JNull /\ data[j].date < data[i].date
                          /\ \E j \in 1..Len(data) : data[j].value # JNull /\ data[j].date > data[i].date}
OuterNulls(data) ==
    {i \in 1..Len(data) : data[i].value = JNull /\ i \notin InteriorNulls(data)}
WBCase ==
    /\ call # Unset /\ call.fn = "fetch_worldbank_data"
    /\ result # Unset /\ call.up.kind = "ok"
    /\ ConsecutiveYears(call.up.data)
    /\ NullCount(call.up.data) >= 1

\* C7 as stated: a response of R entries of which k >= 1 are null gives a
\* table of exactly R - k rows, wherever the null entries lie.
C7_RowsAreRMinusK ==
    (WBCase /\ result.ret.kind = "table") =>
        Len(result.ret.rows) = Len(call.up.data) - NullCount(call.up.data)

\* C7 amended: for a response of R entries for distinct consecutive years of
\* which k >= 1 are null and at least one is not, the table has one row per
\* year from the first to the last year with a non-null value: R minus the
\* number of null entries before the first or after the last non-null year.
\* Those years are absent from the table, a null year between two non-null
\* years is present, and the table has R - k rows exactly when no null
\* entry lies between two non-null ones.
C7_RowsSpanNonNullYears ==
    (WBCase /\ NonNull(call.up.data) # <<>>) =>
        LET data == call.up.data
        IN  /\ result.ret.kind = "table"
            /\ Len(result.ret.rows) = Len(data) - Cardinality(OuterNulls(data))
            /\ \A i \in OuterNulls(data) : data[i].date \notin Dates(result.ret.rows)
            /\ \A i \in InteriorNulls(data) : data[i].date \in Dates(result.ret.rows)
            /\ (Len(result.ret.rows) = Len(data) - NullCount(data)) <=> (InteriorNulls(data) = {})

\* C7 witness: a fetched response with a null year between two non-null
\* years and another null year at an end of the range.
C7_Witness ==
    /\ WBCase /\ result.ret.kind = "table"
    /\ InteriorNulls(call.up.data) # {}
    /\ OuterNulls(call.up.data) # {}

(***************************************************************************)
(* One run of the pipeline that is always continued until it ends: the     *)
(* script is one thread that runs to completion.                           *)
(***************************************************************************)
SpecFair == Init /\ [][Next]_vars /\ WF_vars(RunStep(1))

\* The calls aggregate_data is to make for a country: fetch then sink for
\* GDP, CPI, stock price and news sentiment.
CountrySchedule(c) ==
    << FetchCall("fetch_worldbank_data", <<"NY.GDP.MKTP.CD", c.wb_code>>),
       SaveCall(Path("data/raw", c.name, "gdp")),
       FetchCall("fetch_worldbank_data", <<"FP.CPI.TOTL.ZG", c.wb_code>>),
       SaveCall(Path("data/raw", c.name, "cpi")),
       FetchCall("fetch_yahoo_finance", <<c.stock_index>>),
       SaveCall(Path("data/raw", c.name, "stock")),
       FetchCall("fetch_news_sentiment", <<c.name>>),
       SaveCall(Path("data/raw", c.name, "sentiment")) >>
RECURSIVE Schedule(_)
Schedule(countries) ==
    IF countries = <<>> THEN <<>>
    ELSE CountrySchedule(Head(countries)) \o Schedule(Tail(countries))
IsPrefix(s, t) == Len(s) <= Len(t) /\ s = SubSeq(t, 1, Len(s))

\* C11: the calls a run has made are at every moment the beginning of the
\* schedule "for each configured country in configuration order: GDP fetch,
\* sink, CPI fetch, sink, stock fetch, sink, sentiment fetch, sink", so
\* every step is made once, in order, each sink call before the next
\* fetch; a run that is done has made the whole schedule and makes no
\* further call; and a run started on a configuration with countries ends
\* done unless a fetcher raised.
C11_ScheduleInOrderAndTerminates ==
    /\ [](\A r \in Runs : Configured(r) =>
              /\ IsPrefix(calls[r], Schedule(Countries(r)))
              /\ pc[r] = "done" => calls[r] = Schedule(Countries(r)))
    /\ [][\A r \in Runs : pc[r] = "done" => (pc'[r] = "done" /\ calls'[r] = calls[r])]_vars
    /\ \A r \in {1} :
          (pc[r] = "constructed" /\ Configured(r))
              ~> (pc[r] = "done" \/ exc[r].in \in Fetchers)

\* C11 witness: a run over two countries is done after its sixteen calls,
\* one of whose fetches returned None.
C11_Witness ==
    /\ pc[1] = "done" /\ Configured(1) /\ NCountries(1) = 2
    /\ Len(calls[1]) = 16
    /\ \E m \in MetricNames : FetchedAt(1, 1, m) = None

(***************************************************************************)
(* More claims about the sentiment scorer (specification SpecSentiment).   *)
(***************************************************************************)
\* The places of s where the keyword w begins.
OccurrencesOf(w, s) ==
    {k \in 1..(Len(s) - Len(w) + 1) : SubSeq(s, k, k + Len(w) - 1) = w}
\* The number of occurrences in s of the keywords, each occurrence counted.
TotalOccurrences(words, s) ==
    Cardinality({ik \in (1..Len(words)) \X (1..Len(s)) : ik[2] \in OccurrencesOf(words[ik[1]], s)})
\* The number of keywords that occur in s at least once.
KeywordsPresent(words, s) ==
    Cardinality({i \in 1..Len(words) : OccurrencesOf(words[i], s) # {}})
ScoreOf(positive, negative) == Frac(positive - negative, Max(positive + negative, 1))

\* C12 as stated: for non-empty text the score is (p - n) / max(p + n, 1)
\* with p and n the numbers of occurrences of the positive and of the
\* negative keywords in the lower-cased text, every occurrence counted.
C12_ScoreCountsOccurrences ==
    (Scored /\ ~EmptyOrNull(text)) =>
        SameScore(scores.plain,
                  ScoreOf(TotalOccurrences(PositiveWords, lower(text.chars)),
                          TotalOccurrences(NegativeWords, lower(text.chars))))

\* C12 amended: for non-empty text the score is (p - n) / max(p + n, 1)
\* with p the number of positive keywords and n the number of negative
\* keywords that occur at least once as a substring of the lower-cased
\* text: a keyword occurring several times is counted once.
C12_ScoreCountsKeywordsPresent ==
    (Scored /\ ~EmptyOrNull(text)) =>
        SameScore(scores.plain,
                  ScoreOf(KeywordsPresent(PositiveWords, lower(text.chars)),
                          KeywordsPresent(NegativeWords, lower(text.chars))))

\* C12 witness: a scored text in which a positive keyword occurs twice
\* beside a negative keyword; its score is 0, not 1/3.
C12_Witness ==
    /\ Scored /\ ~EmptyOrNull(text)
    /\ TotalOccurrences(PositiveWords, lower(text.chars)) = 2
    /\ KeywordsPresent(PositiveWords, lower(text.chars)) = 1
    /\ KeywordsPresent(NegativeWords, lower(text.chars)) = 1
    /\ scores.plain.num = 0

(***************************************************************************)
(* More claims about the fetchers (specification SpecFetch).               *)
(***************************************************************************)
\* fetch_news_sentiment was called with an API key and NewsAPI answered
\* with status "ok" and a list of articles.
NewsCase ==
    /\ call # Unset /\ call.fn = "fetch_news_sentiment"
    /\ call.api_keys.kind = "dict" /\ ApiKey(call.api_keys) # ""
    /\ call.up.kind = "json" /\ call.up.status = "ok"
    /\ result # Unset
WellFormed(art) == art.publishedAt.kind = "date" /\ art.source.kind = "dict"
\* The row holds the date, title and source name of the article.
RowOf(row, art) ==
    /\ row.date = art.publishedAt.day /\ row.title = art.title
    /\ row.source = art.source.name
    /\ art.content = NoText => row.sentiment.num = 0

\* C13: a malformed article is skipped alone: the table has a row for
\* every well-formed article of the response and none for any other, the
\* row of an article whose content is None has sentiment 0, no two rows of
\* the table are identical, and the table has at most as many rows as the
\* response has articles.
C13_MalformedArticleSkippedAlone ==
    NewsCase =>
        LET arts == call.up.articles
            rows == result.ret.rows
        IN  /\ result.ret.kind = "table"
            /\ \A i \in 1..Len(arts) : WellFormed(arts[i]) =>
                  \E k \in 1..Len(rows) :
                      /\ RowOf(rows[k], arts[i])
                      /\ SameScore(rows[k].sentiment, _analyze_sentiment(arts[i].content))
            /\ \A k \in 1..Len(rows) :
                  \E i \in 1..Len(arts) : WellFormed(arts[i]) /\ RowOf(rows[k], arts[i])
            /\ \A k \in 1..Len(rows) : \A j \in 1..(k - 1) : ~SameRow(rows[j], rows[k])
            /\ Len(rows) <= Len(arts)

\* C13 witness: a response with a malformed article first, then two
\* well-formed articles, one of them with content None, gave two rows.
C13_Witness ==
    /\ NewsCase /\ Len(call.up.articles) = 3
    /\ ~WellFormed(call.up.articles[1])
    /\ WellFormed(call.up.articles[2]) /\ WellFormed(call.up.articles[3])
    /\ call.up.articles[3].content = NoText
    /\ result.ret.kind = "table" /\ Len(result.ret.rows) = 2

\* fetch_worldbank_data was called and got a list of entries for distinct
\* years, at least one of them with a value.
WBFillCase ==
    /\ call # Unset /\ call.fn = "fetch_worldbank_data"
    /\ result # Unset /\ call.up.kind = "ok"
    /\ Cardinality(AllDates(call.up.data)) = Len(call.up.data)
    /\ \E i \in 1..Len(call.up.data) : call.up.data[i].value # JNull
ValuedYears(data) == {data[i].date : i \in {j \in 1..Len(data) : data[j].value # JNull}}
ValueOfYear(data, y) == data[CHOOSE i \in 1..Len(data) : data[i].date = y].value.n

\* C14: for a response with distinct years and at least one non-null entry
\* the table is ordered by date ascending and has exactly one row for every
\* year from the earliest to the latest year with a non-null value; the row
\* of a year with a non-null value carries that value and the row of any
\* other year of that range carries the value of the latest earlier year
\* with a non-null value.
C14_AnnualForwardFilled ==
    WBFillCase =>
        LET data == call.up.data
            rows == result.ret.rows
            valued == ValuedYears(data)
            lo == CHOOSE y \in valued : \A z \in valued : y <= z
            hi == CHOOSE y \in valued : \A z \in valued : y >= z
        IN  /\ result.ret.kind = "table"
            /\ Len(rows) = hi - lo + 1
            /\ \A k \in 1..Len(rows) : rows[k].date = lo + k - 1
            /\ \A k \in 1..Len(rows) :
                  LET y == rows[k].date
                      src == CHOOSE v \in valued : v <= y /\ \A w \in valued : w <= y => w <= v
                  IN  rows[k].value = ValueOfYear(data, src)

\* C14 witness: a response listed newest year first, with a null year
\* between two years of different values, gave a three-row table.
C14_Witness ==
    /\ WBFillCase /\ Len(call.up.data) = 3
    /\ call.up.data[1].date > call.up.data[2].date
    /\ call.up.data[2].date > call.up.data[3].date
    /\ call.up.data[1].value = JNum(9) /\ call.up.data[2].value = JNull
    /\ call.up.data[3].value = JNum(7)
    /\ result.ret.kind = "table" /\ Len(result.ret.rows) = 3
    /\ result.ret.rows[2].value = 7

\* No news API key is configured, or the one configured is empty: the
\* mapping is missing, has no "news_api" entry, or the entry is null or "".
NewsKeyEmpty(api_keys) ==
    \/ api_keys.kind # "dict"
    \/ ~HasKey(api_keys, "news_api")
    \/ api_keys.items.news_api.kind = "None"
    \/ api_keys.items.news_api = YamlStr("")
BadSymbol(symbol) == symbol.kind # "str" \/ Len(symbol.chars) < 2

\* C15: fetch_yahoo_finance makes no call to the provider when the ticker
\* is not a string of length at least 2, fetch_news_sentiment makes no HTTP
\* request when the configured news API key is empty, both then return
\* None; and an empty price history from the provider gives None.
C15_ValidationPrecedesCall ==
    (call # Unset /\ result # Unset) =>
        /\ (call.fn = "fetch_yahoo_finance" /\ BadSymbol(call.symbol))
              => (~result.calledOut /\ result.ret = None)
        /\ (call.fn = "fetch_yahoo_finance" /\ ~BadSymbol(call.symbol)
               /\ call.up.kind = "history" /\ call.up.rows = <<>>)
              => result.ret = None
        /\ (call.fn = "fetch_news_sentiment" /\ NewsKeyEmpty(call.api_keys))
              => (~result.calledOut /\ result.ret = None)

(***************************************************************************)
(* Claims about concurrent runs (specification SpecConcurrent).            *)
(***************************************************************************)
\* Both runs are done and every fetch of both returned a non-empty table.
BothDoneAllFetched ==
    \A r \in ConcurrentRuns : pc[r] = "done" /\ Configured(r) /\ AllFetched(r)
\* Run b was started after run a had written its last file.
StartedAfter(b, a) ==
    \A m \in MetricNames :
        /\ SinkPathOf(a, 1, m) \in DOMAIN filesAtStart[b]
        /\ filesAtStart[b][SinkPathOf(a, 1, m)].by = a
\* The files of the country come from different runs.
MixedFiles ==
    \E m, n \in MetricNames :
        /\ SinkPath(AllCountries[1].name, m) \in DOMAIN files
        /\ SinkPath(AllCountries[1].name, n) \in DOMAIN files
        /\ files[SinkPath(AllCountries[1].name, m)].by # files[SinkPath(AllCountries[1].name, n)].by

\* C16: when two runs execute one after the other with all fetches
\* succeeding, the persisted files of the country all come from the later
\* run, never from different runs; only runs that overlap can leave files
\* from different runs.
C16_SequentialRunsNeverMix ==
    BothDoneAllFetched =>
        /\ \A a, b \in ConcurrentRuns :
              (a # b /\ StartedAfter(b, a)) =>
                  /\ ~MixedFiles
                  /\ \A m \in MetricNames : FileAt(files, SinkPathOf(b, 1, m)).by = b
        /\ MixedFiles => \A a, b \in ConcurrentRuns : ~StartedAfter(b, a)

\* C16 witness: two overlapping runs are both done with all fetches
\* succeeded, and the GDP file comes from one run, the CPI file from the
\* other.
C16_Witness ==
    /\ BothDoneAllFetched
    /\ files[SinkPath(AllCountries[1].name, "gdp")].by = 1
    /\ files[SinkPath(AllCountries[1].name, "cpi")].by = 2

(***************************************************************************)
(* Claims about the draft script (specification SpecDraft).                *)
(***************************************************************************)
DraftOrder == <<"fetch_forex_data", "fetch_inflation_data", "fetch_gdp_data">>
StepOf(fn) == CHOOSE s \in 1..Len(DraftOrder) : DraftOrder[s] = fn
DraftTargets(s) == <<ForexPairs, InflationSeries, GdpCountries>>[s]
FilesOfStep(s) == {DraftTargets(s)[k].file : k \in 1..Len(DraftTargets(s))}
DraftFileSet == DOMAIN draftFiles
\* The calls that failed, and those of them that ended in an exception.
FailedCalls == {i \in 1..Len(draftCalls) : draftCalls[i].out.kind # "ok"}
ExceptionCalls == {i \in 1..Len(draftCalls) : draftCalls[i].out.kind \in {"raise", "bad_payload"}}
\* The GDP files of the countries whose request was answered with the data.
GdpFilesAnswered ==
    {GdpCountries[k].file : k \in {j \in 1..Len(GdpCountries) :
        \E i \in 1..Len(draftCalls) :
            /\ draftCalls[i].fn = "fetch_gdp_data"
            /\ draftCalls[i].arg = GdpCountries[j].arg
            /\ draftCalls[i].out.kind = "ok"}}

\* C17 as stated: once an upstream call has failed the process is aborted:
\* that call is the last one made, no later fetch function is invoked, no
\* file of the failing step or of a later step is written, and the files
\* of the earlier steps are there.
C17_AnyFailureAbortsBeforeWriting ==
    FailedCalls # {} =>
        LET f == CHOOSE i \in FailedCalls : \A j \in FailedCalls : i <= j
            s == StepOf(draftCalls[f].fn)
        IN  /\ draftPc = "aborted" /\ Len(draftCalls) = f
            /\ draftInvoked = SubSeq(DraftOrder, 1, s)
            /\ \A t \in s..Len(DraftOrder) : FilesOfStep(t) \cap DraftFileSet = {}
            /\ \A t \in 1..(s - 1) : FilesOfStep(t) \subseteq DraftFileSet

\* C17 amended: the process is aborted exactly when an upstream call ended
\* in an exception (the call raised, or the body of a 200 response could
\* not be decoded).  That call is the last one, no later fetch function is
\* invoked, no file of a later step is written and the files of the earlier
\* steps remain.  Of the failing step, fetch_forex_data and
\* fetch_inflation_data have written no file; fetch_gdp_data has written
\* the files of the countries it was answered for before the failing call.
\* A GDP response with another status than 200 aborts nothing: that
\* country's file is not written and the loop goes on.
C17_ExceptionAbortsLaterSteps ==
    /\ (ExceptionCalls # {}) <=> (draftPc = "aborted")
    /\ ExceptionCalls # {} =>
          LET f == CHOOSE i \in ExceptionCalls : TRUE
              s == StepOf(draftCalls[f].fn)
          IN  /\ ExceptionCalls = {Len(draftCalls)}
              /\ draftInvoked = SubSeq(DraftOrder, 1, s)
              /\ \A t \in (s + 1)..Len(DraftOrder) : FilesOfStep(t) \cap DraftFileSet = {}
              /\ \A t \in 1..(s - 1) : FilesOfStep(t) \subseteq DraftFileSet
              /\ s < Len(DraftOrder) => FilesOfStep(s) \cap DraftFileSet = {}
    /\ FilesOfStep(Len(DraftOrder)) \cap DraftFileSet = GdpFilesAnswered
    /\ draftPc = "done" =>
          /\ Len(draftCalls) = Len(ForexPairs) + Len(InflationSeries) + Len(GdpCountries)
          /\ draftInvoked = DraftOrder

\* C17 witness: the GDP request for the first country was answered with
\* status 500, the second with data, the third raised: the process is
\* aborted with seven files written, one of them of the failing step.
C17_Witness ==
    /\ draftPc = "aborted" /\ Len(draftCalls) = 9
    /\ draftCalls[7].out.kind = "status_not_200"
    /\ draftCalls[8].out.kind = "ok"
    /\ draftCalls[9].out.kind = "raise"
    /\ Cardinality(DraftFileSet) = 7
    /\ GdpCountries[2].file \in DraftFileSet
====
